---------------------------- MODULE Spec2Model ----------------------------
(***************************************************************************)
(* A model of the calcium calendar library: the Event value type with its *)
(* validated start/end setters (src/src/event.rs) and the EventCalendar   *)
(* with its two views, the identifier map `ids` and the chronological     *)
(* set `evts` (src/src/cal.rs).                                           *)
(*                                                                         *)
(* Timestamps (chrono::NaiveDateTime) are counted in ticks; a second holds *)
(* TicksPerSec ticks, because NaiveDateTime carries sub-second precision   *)
(* while Duration::num_seconds counts whole seconds only.  Names (String)  *)
(* and identifiers (Uuid) are represented by their rank in their own       *)
(* total order, which is all the derived Ord/Eq of Event uses of them.     *)
(***************************************************************************)
EXTENDS Integers, Sequences, FiniteSets, TLC

VARIABLES
    ids,     \* EventCalendar.ids: identifier -> Event
    evts,    \* EventCalendar.evts: the chronological set
    event,   \* the Event the caller holds (Option)
    call,    \* the last call made: its name and argument
    ret,     \* what the last call returned
    latest   \* history: per identifier, the Event of the last add_event under
             \* it, None before the first one and after a remove of it

vars == <<ids, evts, event, call, ret, latest>>

---------------------------------------------------------------------------
(* Bounds of the model. *)

\* ticks per second: the sub-second resolution of a timestamp
TicksPerSec == 2
\* seconds per day (86400 in chrono), scaled down
SecsPerDay == 2
\* calendar dates 0 .. MaxDate
MaxDate == 1
\* names 1 .. MaxName, identifiers 1 .. MaxId
MaxName == 2
MaxId == 2
\* timestamps 0 .. MaxTime of the events handed to the calendar
MaxTime == 3
\* add_event is not called once the chronological set holds MaxEvts events
MaxEvts == 2

TicksPerDay == SecsPerDay * TicksPerSec
Dates == 0 .. MaxDate
Times == 0 .. (TicksPerDay - 1)
Timestamps == 0 .. ((MaxDate + 1) * TicksPerDay - 1)
Names == 1 .. MaxName
Ids == 1 .. MaxId

---------------------------------------------------------------------------
(* Option and Result values. *)

None == <<>>
Some(x) == <<x>>
Ok(x) == <<"Ok", x>>
Err(x) == <<"Err", x>>

---------------------------------------------------------------------------
(* chrono: dates, times of day and durations. *)

\* NaiveDateTime::new(date, time)
NaiveDateTime_new(d, t) == d * TicksPerDay + t
\* NaiveDateTime::date, NaiveDateTime::time
date(ts) == ts \div TicksPerDay
time(ts) == ts % TicksPerDay

\* day_start() = 00:00:00, day_end() = 23:59:59
day_start == 0
day_end == (SecsPerDay - 1) * TicksPerSec

\* Duration::num_seconds: the whole seconds of a duration, truncated toward zero
num_seconds(d) == IF d >= 0 THEN d \div TicksPerSec ELSE 0 - ((0 - d) \div TicksPerSec)

---------------------------------------------------------------------------
(* Event *)

Event(st, en, nm, i) == [start |-> st, end |-> en, name |-> nm, id |-> i]

\* a validity check that lets a zero-second span through
start_end_times_valid_nonneg(st, end) == num_seconds(end - st) >= 0

\* Event::start_end_times_valid
start_end_times_valid(st, end) == num_seconds(end - st) > 0

\* #[derive(PartialOrd, Ord)] on Event: lexicographic over the fields in
\* declaration order start, end, name, id
EventLess(a, b) ==
    \/ a.start < b.start
    \/ a.start = b.start /\ a.end < b.end
    \/ a.start = b.start /\ a.end = b.end /\ a.name < b.name
    \/ a.start = b.start /\ a.end = b.end /\ a.name = b.name /\ a.id < b.id

\* every Event a caller can build: Event::new followed by the setters yields
\* any start/end pair that passes start_end_times_valid, any name, any id
CalEvents ==
    { e \in [start : 0 .. MaxTime, end : 0 .. MaxTime, name : Names, id : Ids] :
        start_end_times_valid(e.start, e.end) }

---------------------------------------------------------------------------
(* EventCalendar: ids is the BTreeMap<Uuid, Event>, evts the BTreeSet<Event>. *)

\* an insert that keeps the value already stored under k
ids_insert_keep(m, k, v) == [x \in (DOMAIN m) \cup {k} |-> IF x \in DOMAIN m THEN m[x] ELSE v]

\* BTreeMap::insert(k, v): the value under k is replaced
ids_insert(m, k, v) == [x \in (DOMAIN m) \cup {k} |-> IF x = k THEN v ELSE m[x]]
\* BTreeMap::remove(k)
ids_remove(m, k) == [x \in (DOMAIN m) \ {k} |-> m[x]]
\* an insert into a set that tells its elements apart by identifier only
evts_insert_by_id(s, v) == IF \E x \in s : x.id = v.id THEN s ELSE s \cup {v}
\* BTreeSet::insert(v): the set afterwards; its result is whether v was absent
evts_insert(s, v) == s \cup {v}
\* the result with its sense inverted: whether v was present
evts_insert_ret_inverted(s, v) == v \in s
evts_insert_ret(s, v) == v \notin s
\* a remove that leaves the element in the set
evts_remove_keep(s, v) == s
\* BTreeSet::remove(v): the set afterwards; its result is whether v was present
evts_remove(s, v) == s \ {v}
\* the result with the two match arms of remove swapped
evts_remove_ret_swapped(s, v) == v \notin s
evts_remove_ret(s, v) == v \in s

\* BTreeSet::first: the least element under Ord
evts_first(s) ==
    IF s = {} THEN None
    ELSE Some(CHOOSE x \in s : \A y \in s \ {x} : EventLess(x, y))

\* BTreeSet::iter: the elements in ascending order
RECURSIVE evts_iter(_)
evts_iter(s) ==
    IF s = {} THEN <<>>
    ELSE LET x == CHOOSE x \in s : \A y \in s \ {x} : EventLess(x, y)
         IN <<x>> \o evts_iter(s \ {x})

\* a filter that tests whether the Event and the range overlap
in_range_overlap(evt, start, end) == evt.start <= end /\ evt.end >= start
\* the filter closure of events_in_range
in_range(evt, start, end) ==
    \/ evt.start >= start /\ evt.start <= end
    \/ evt.end >= start /\ evt.end <= end

\* EventCalendar::events_in_range, the iterator collected
events_in_range(start, end) ==
    LET it == evts_iter(evts)
        keep(evt) == in_range(evt, start, end)
    IN SelectSeq(it, keep)

\* EventCalendar::first_event
first_event == evts_first(evts)

\* a lookup that searches the chronological set for the identifier
get_from_evts(id) ==
    IF \E e \in evts : e.id = id
    THEN Some(CHOOSE e \in evts : e.id = id)
    ELSE None

\* EventCalendar::get
get(id) == IF id \in DOMAIN ids THEN Some(ids[id]) ELSE None

\* EventCalendar::add_event
add_event(e) ==
    /\ Cardinality(evts) < MaxEvts
    /\ ids' = ids_insert(ids, e.id, e)
    /\ evts' = evts_insert(evts, e)
    /\ ret' = evts_insert_ret(evts, e)
    /\ call' = [op |-> "add_event", arg |-> e]
    /\ latest' = [latest EXCEPT ![e.id] = Some(e)]
    /\ UNCHANGED event

\* EventCalendar::add_event as called by a caller that removes before it
\* re-adds: never with an id that is stored with other start, end or name
add_event_protocol(e) ==
    /\ e.id \in DOMAIN ids => ids[e.id] = e
    /\ add_event(e)

\* EventCalendar::remove
remove(id) ==
    /\ call' = [op |-> "remove", arg |-> id]
    /\ latest' = [latest EXCEPT ![id] = None]
    /\ UNCHANGED event
    /\ IF id \notin DOMAIN ids
       THEN /\ ret' = None
            /\ UNCHANGED <<ids, evts>>
       ELSE LET evt == ids[id] IN
            /\ ids' = ids_remove(ids, id)
            /\ evts' = evts_remove(evts, evt)
            /\ ret' = IF evts_remove_ret(evts, evt) THEN Some(evt) ELSE None

\* a call of EventCalendar::get
call_get(id) ==
    /\ call' = [op |-> "get", arg |-> id]
    /\ ret' = get(id)
    /\ UNCHANGED <<ids, evts, event, latest>>

\* a call of EventCalendar::first_event
call_first_event ==
    /\ call' = [op |-> "first_event", arg |-> None]
    /\ ret' = first_event
    /\ UNCHANGED <<ids, evts, event, latest>>

\* a call of EventCalendar::events_in_range
call_events_in_range(start, end) ==
    /\ call' = [op |-> "events_in_range", arg |-> <<start, end>>]
    /\ ret' = events_in_range(start, end)
    /\ UNCHANGED <<ids, evts, event, latest>>

---------------------------------------------------------------------------
(* The Event setters, called on the Event the caller holds in `event`.     *)
(* The start/end setters take `self` by value: on Ok the caller binds the  *)
(* returned Event, on Err only the error comes back and the Event that was *)
(* moved into the call is dropped.                                         *)

\* Event::new; Uuid::new_v4() draws the identifier
Event_new(name, d, id) ==
    LET e == Event(NaiveDateTime_new(d, day_start), NaiveDateTime_new(d, day_end), name, id)
    IN /\ event' = Some(e)
       /\ call' = [op |-> "new", arg |-> <<name, d>>]
       /\ ret' = Some(e)
       /\ UNCHANGED <<ids, evts, latest>>

\* the common shape of the start setters: validate (new_start, self.end)
try_start(self, new_start) ==
    IF start_end_times_valid(new_start, self.end)
    THEN Ok([self EXCEPT !.start = new_start])
    ELSE Err("InvalidStartTime")

\* an end setter that writes the new value into start
try_end_into_start(self, new_end) ==
    IF start_end_times_valid(self.start, new_end)
    THEN Ok([self EXCEPT !.start = new_end])
    ELSE Err("InvalidEndTime")

\* the common shape of the end setters: validate (self.start, new_end)
try_end(self, new_end) ==
    IF start_end_times_valid(self.start, new_end)
    THEN Ok([self EXCEPT !.end = new_end])
    ELSE Err("InvalidEndTime")

\* the caller's binding after a call that consumed it and returned r
rebind(r) == IF r[1] = "Ok" THEN Some(r[2]) ELSE None

\* Event::set_start
set_start(start) ==
    /\ event # None
    /\ call' = [op |-> "set_start", arg |-> start]
    /\ ret' = try_start(event[1], start)
    /\ event' = rebind(ret')
    /\ UNCHANGED <<ids, evts, latest>>

\* Event::set_start_time
set_start_time(start) ==
    /\ event # None
    /\ call' = [op |-> "set_start_time", arg |-> start]
    /\ ret' = try_start(event[1], NaiveDateTime_new(date(event[1].start), start))
    /\ event' = rebind(ret')
    /\ UNCHANGED <<ids, evts, latest>>

\* Event::set_start_date
set_start_date(start) ==
    /\ event # None
    /\ call' = [op |-> "set_start_date", arg |-> start]
    /\ ret' = try_start(event[1], NaiveDateTime_new(start, time(event[1].start)))
    /\ event' = rebind(ret')
    /\ UNCHANGED <<ids, evts, latest>>

\* Event::set_end
set_end(end) ==
    /\ event # None
    /\ call' = [op |-> "set_end", arg |-> end]
    /\ ret' = try_end(event[1], end)
    /\ event' = rebind(ret')
    /\ UNCHANGED <<ids, evts, latest>>

\* an end-time setter that combines the new time with the date of start
set_end_time_on_start_date(end) ==
    /\ event # None
    /\ call' = [op |-> "set_end_time", arg |-> end]
    /\ ret' = try_end(event[1], NaiveDateTime_new(date(event[1].start), end))
    /\ event' = rebind(ret')
    /\ UNCHANGED <<ids, evts, latest>>

\* Event::set_end_time
set_end_time(end) ==
    /\ event # None
    /\ call' = [op |-> "set_end_time", arg |-> end]
    /\ ret' = try_end(event[1], NaiveDateTime_new(date(event[1].end), end))
    /\ event' = rebind(ret')
    /\ UNCHANGED <<ids, evts, latest>>

\* Event::set_end_date
set_end_date(end) ==
    /\ event # None
    /\ call' = [op |-> "set_end_date", arg |-> end]
    /\ ret' = try_end(event[1], NaiveDateTime_new(end, time(event[1].end)))
    /\ event' = rebind(ret')
    /\ UNCHANGED <<ids, evts, latest>>

\* Event::set_name: in place through &mut self, returns ()
set_name(new_name) ==
    /\ event # None
    /\ call' = [op |-> "set_name", arg |-> new_name]
    /\ ret' = None
    /\ event' = Some([event[1] EXCEPT !.name = new_name])
    /\ UNCHANGED <<ids, evts, latest>>

---------------------------------------------------------------------------
(* Identifiers given as text: impl IntoUuid for &str.  Text t in Ids is the *)
(* canonical text of identifier t; text 0 is text that is no identifier.    *)

Texts == {0} \cup Ids

\* Uuid::from_str
Uuid_from_str(text) == IF text \in Ids THEN Ok(text) ELSE Err("ParseError")

\* the outcome of a panicking call: Result::unwrap on an Err aborts it
Panic == <<"panic">>

\* EventCalendar::get::<&str>: id.into_uuid() unwraps Uuid::from_str
get_str(text) ==
    IF Uuid_from_str(text)[1] = "Ok"
    THEN call_get(Uuid_from_str(text)[2])
    ELSE /\ call' = [op |-> "get_str", arg |-> text]
         /\ ret' = Panic
         /\ UNCHANGED <<ids, evts, event, latest>>

\* EventCalendar::remove::<&str>: id.into_uuid() unwraps Uuid::from_str
remove_str(text) ==
    IF Uuid_from_str(text)[1] = "Ok"
    THEN remove(Uuid_from_str(text)[2])
    ELSE /\ call' = [op |-> "remove_str", arg |-> text]
         /\ ret' = Panic
         /\ UNCHANGED <<ids, evts, event, latest>>
---------------------------------------------------------------------------
(* The derived comparison of two Events. *)

\* Ord::cmp of one field (NaiveDateTime, String, Uuid, by rank)
field_cmp(x, y) == IF x < y THEN "Less" ELSE IF x = y THEN "Equal" ELSE "Greater"

\* a derived comparison over a struct that declares name before end
Event_cmp_name_first(a, b) ==
    IF field_cmp(a.start, b.start) # "Equal" THEN field_cmp(a.start, b.start)
    ELSE IF field_cmp(a.name, b.name) # "Equal" THEN field_cmp(a.name, b.name)
    ELSE IF field_cmp(a.end, b.end) # "Equal" THEN field_cmp(a.end, b.end)
    ELSE field_cmp(a.id, b.id)

\* #[derive(Ord)] Event::cmp: the first field, in declaration order, that
\* does not compare Equal decides
Event_cmp(a, b) ==
    IF field_cmp(a.start, b.start) # "Equal" THEN field_cmp(a.start, b.start)
    ELSE IF field_cmp(a.end, b.end) # "Equal" THEN field_cmp(a.end, b.end)
    ELSE IF field_cmp(a.name, b.name) # "Equal" THEN field_cmp(a.name, b.name)
    ELSE field_cmp(a.id, b.id)

\* a call of a.cmp(&b)
call_cmp(a, b) ==
    /\ call' = [op |-> "cmp", arg |-> <<a, b>>]
    /\ ret' = Event_cmp(a, b)
    /\ UNCHANGED <<ids, evts, event, latest>>
---------------------------------------------------------------------------
\* EventCalendar::default(): both views empty; the caller holds no Event yet
Init ==
    /\ ids = <<>>
    /\ evts = {}
    /\ event = None
    /\ call = [op |-> "default", arg |-> None]
    /\ ret = None
    /\ latest = [id \in Ids |-> None]

\* the calendar driven by add_event, remove, get and first_event
Next ==
    \/ \E e \in CalEvents : add_event(e)
    \/ \E id \in Ids : remove(id)
    \/ \E id \in Ids : call_get(id)
    \/ call_first_event

Spec == Init /\ [][Next]_vars

\* the calendar with range queries as well
RangeNext ==
    \/ \E e \in CalEvents : add_event(e)
    \/ \E id \in Ids : remove(id)
    \/ \E start, end \in 0 .. MaxTime : call_events_in_range(start, end)

RangeSpec == Init /\ [][RangeNext]_vars

\* one Event under construction and mutation
EventNext ==
    \/ \E name \in Names, d \in Dates, id \in Ids : Event_new(name, d, id)
    \/ \E t \in Timestamps : set_start(t)
    \/ \E t \in Times : set_start_time(t)
    \/ \E d \in Dates : set_start_date(d)
    \/ \E t \in Timestamps : set_end(t)
    \/ \E t \in Times : set_end_time(t)
    \/ \E d \in Dates : set_end_date(d)
    \/ \E name \in Names : set_name(name)

EventSpec == Init /\ [][EventNext]_vars

\* comparisons of any two Events
CmpNext == \E a, b \in CalEvents : call_cmp(a, b)

CmpSpec == Init /\ [][CmpNext]_vars
\* the calendar looked up and emptied by identifier text; a panic unwinds out
\* of the call before either view is touched, and the calendar lives on
StrNext ==
    \/ \E e \in CalEvents : add_event(e)
    \/ \E text \in Texts : get_str(text)
    \/ \E text \in Texts : remove_str(text)

StrSpec == Init /\ [][StrNext]_vars
\* the calendar under the remove-then-re-add protocol
ProtocolNext ==
    \/ \E e \in CalEvents : add_event_protocol(e)
    \/ \E id \in Ids : remove(id)
    \/ \E id \in Ids : call_get(id)
    \/ call_first_event

ProtocolSpec == Init /\ [][ProtocolNext]_vars
---------------------------------------------------------------------------
(* Properties of the calendar. *)

\* the Events the identifier map holds, i.e. those get can return
Stored == { ids[id] : id \in DOMAIN ids }

\* C1: after any sequence of add_event and remove calls, the identifiers
\* keyed in the identifier map are exactly the identifiers of the Events in
\* the chronological index.
C1_SameIdentifiers == DOMAIN ids = { e.id : e \in evts }

\* C2: add_event(e) returns true if and only if e.id was absent from the
\* identifier map immediately before the call.
C2_AddReturnsIdAbsent ==
    [][\A e \in CalEvents :
             (call'.op = "add_event" /\ add_event(e)) => (ret' = (e.id \notin DOMAIN ids))]_vars

\* C3: the chronological index holds at most one Event per identifier.
C3_OnePerIdentifier == \A a, b \in evts : a.id = b.id => a = b

\* C4: events_in_range(start, end) yields exactly the stored Events whose
\* start or end lies in [start, end], each once, in ascending order.
C4_RangeIsStoredInRange ==
    call.op = "events_in_range" =>
        /\ { ret[i] : i \in 1 .. Len(ret) } =
             { e \in Stored : \/ call.arg[1] <= e.start /\ e.start <= call.arg[2]
                              \/ call.arg[1] <= e.end /\ e.end <= call.arg[2] }
        /\ \A i, j \in 1 .. Len(ret) : i < j => EventLess(ret[i], ret[j])

\* C5: first_event returns the least stored Event, and returns empty exactly
\* when no Event is stored.
C5_FirstIsLeastStored ==
    call.op = "first_event" =>
        /\ (ret = None) <=> (Stored = {})
        /\ ret # None =>
             /\ ret[1] \in Stored
             /\ \A e \in Stored : e = ret[1] \/ EventLess(ret[1], e)

\* C6: while add_event(e) is the latest insertion under e.id and no removal
\* of that identifier has followed, get(e.id) returns an Event equal to e.
C6_GetReturnsLatest ==
    /\ \A id \in Ids : latest[id] # None => get(id) = latest[id]
    /\ (call.op = "get" /\ latest[call.arg] # None) => ret = latest[call.arg]

\* a get answered after the Event under its identifier was replaced
C6_Witness ==
    /\ call.op = "get"
    /\ ret # None
    /\ \E e \in evts : e.id = call.arg /\ e # ret[1]

\* C7: remove(id) returns the Event last added under id when no removal of
\* id has intervened, and a remove(id) right after it returns empty.
C7_RemoveRoundTrip ==
    [][\A id \in Ids : remove(id) =>
          /\ latest[id] # None => ret' = latest[id]
          /\ call = [op |-> "remove", arg |-> id] => ret' = None]_vars

\* a remove that returned the Event added last under an identifier that had
\* been added before with other data
C7_Witness ==
    /\ call.op = "remove"
    /\ ret # None
    /\ \E e \in evts : e.id = call.arg

\* C13: get(id) and remove(id) for an identifier that is not stored return
\* empty and leave the identifier map and the chronological set as they were.
C13_AbsentIdIsEmptyAndInert ==
    [][\A id \in Ids : id \notin DOMAIN ids =>
          /\ remove(id) => (ret' = None /\ ids' = ids /\ evts' = evts)
          /\ call_get(id) => (ret' = None /\ ids' = ids /\ evts' = evts)]_vars

\* a remove of an identifier that is not stored, answered empty while the
\* calendar holds Events
C13_Witness ==
    /\ call.op = "remove"
    /\ ret = None
    /\ evts # {}
    /\ call.arg \notin { e.id : e \in evts }

\* C14: get and remove given text that does not parse as an identifier
\* produce a parse-failure outcome the caller can handle, not an abort, and
\* leave the calendar unchanged.
C14_BadTextIsParseFailure ==
    [][\A text \in Texts : Uuid_from_str(text)[1] = "Err" =>
          ((get_str(text) \/ remove_str(text)) =>
              (ret' = Err("ParseError") /\ ids' = ids /\ evts' = evts))]_vars

\* the Events events_in_range(start, end) yields
Yielded(start, end) ==
    { events_in_range(start, end)[i] : i \in 1 .. Len(events_in_range(start, end)) }

\* C16 as stated: for any range, an Event of the calendar that starts
\* strictly before the range start and ends strictly after the range end is
\* never yielded, and one with start = range end or end = range start is.
C16_EndpointContainment ==
    \A start, end \in 0 .. MaxTime : \A e \in evts :
        /\ (e.start < start /\ e.end > end) => e \notin Yielded(start, end)
        /\ (e.start = end \/ e.end = start) => e \in Yielded(start, end)

\* C16 amended: the same for every range whose start is not after its end
\* (a range with start > end contains no timestamp and yields nothing).
C16_EndpointContainmentProperRange ==
    \A start, end \in 0 .. MaxTime : start <= end =>
        \A e \in evts :
            /\ (e.start < start /\ e.end > end) => e \notin Yielded(start, end)
            /\ (e.start = end \/ e.end = start) => e \in Yielded(start, end)

\* a calendar with an Event spanning a range and left out of it, and an
\* Event starting exactly at the range end and yielded
C16_Witness ==
    \E start, end \in 0 .. MaxTime : \E a, b \in evts :
        /\ start <= end
        /\ a.start < start /\ a.end > end /\ a \notin Yielded(start, end)
        /\ b.start = end /\ b \in Yielded(start, end)

\* C17: once remove(id) has returned an Event, and until add_event inserts
\* id again, no Event carrying id is observable through get, first_event or
\* events_in_range for any range.  (latest[id] is None from a remove of id
\* until the next add_event under id; before the first add_event under id no
\* Event carries it.)
C17_RemovedIsUnobservable ==
    \A id \in Ids : latest[id] = None =>
        /\ get(id) = None
        /\ first_event # None => first_event[1].id # id
        /\ \A start, end \in 0 .. MaxTime :
              \A e \in Yielded(start, end) : e.id # id

\* C18: every Event held in the identifier map is a member of the
\* chronological set; hence remove(id) of a stored id returns that Event and
\* never deletes the map entry while returning empty.
C18_StoredIsIndexed ==
    [][/\ \A id \in DOMAIN ids' : ids'[id] \in evts'
       /\ \A id \in DOMAIN ids : remove(id) =>
             (ret' = Some(ids[id]) /\ id \notin DOMAIN ids')]_vars

\* a remove that returned its Event while another identifier stays stored
C18_Witness ==
    /\ call.op = "remove"
    /\ ret # None
    /\ DOMAIN ids # {}
    /\ Stored \subseteq evts

\* C19: under the remove-then-re-add protocol the chronological set is
\* exactly the set of values of the identifier map in every reachable state,
\* and add_event returns whether the id was absent before the call.
C19_ProtocolKeepsViewsEqual ==
    [][/\ evts' = { ids'[id] : id \in DOMAIN ids' }
       /\ (call'.op = "add_event" /\ add_event(call'.arg)) =>
             (ret' = (call'.arg.id \notin DOMAIN ids))]_vars

\* an add_event that returned true and made its Event the second one stored,
\* both views holding the same two Events
C19_Witness ==
    /\ call.op = "add_event"
    /\ ret = TRUE
    /\ Cardinality(DOMAIN ids) = 2
    /\ evts = Stored

\* C20: add_event of an Event equal in all four fields to one already stored
\* returns false and leaves the identifier map and the chronological set
\* unchanged.
C20_AddIdenticalIsIdempotent ==
    [][call'.op = "add_event" =>
          LET e == call'.arg
          IN (e \in Stored /\ add_event(e)) =>
                (ret' = FALSE /\ ids' = ids /\ evts' = evts)]_vars

\* an add_event that returned false, the calendar holding exactly its Event
C20_Witness ==
    /\ call.op = "add_event"
    /\ ret = FALSE
    /\ evts = {call.arg}
    /\ Stored = {call.arg}

---------------------------------------------------------------------------
(* Properties of the Event setters. *)

StartSetters == {"set_start", "set_start_time", "set_start_date"}
EndSetters == {"set_end", "set_end_time", "set_end_date"}

\* C8: every Event obtained from Event::new and successful setter calls has
\* its end at least one whole second after its start, so end is strictly
\* after start.
C8_EndAfterStart ==
    event # None =>
        /\ event[1].end - event[1].start >= TicksPerSec
        /\ (event[1].end \div TicksPerSec) - (event[1].start \div TicksPerSec) > 0
        /\ event[1].end > event[1].start

\* an Event whose start and end were both moved by successful setter calls
C8_Witness ==
    /\ event # None
    /\ call.op \in StartSetters \cup EndSetters
    /\ time(event[1].start) # day_start
    /\ time(event[1].end) # day_end

\* C9: set_start(new_start) fails, with InvalidStartTime, exactly when
\* new_start is not strictly before the current end, and set_end(new_end)
\* fails, with InvalidEndTime, exactly when new_end is not strictly after the
\* current start; every other value is accepted.
C9_RejectsExactlyNotBefore ==
    [][/\ \A t \in Timestamps : set_start(t) =>
             IF t < event[1].end
             THEN ret'[1] = "Ok"
             ELSE ret' = Err("InvalidStartTime")
       /\ \A t \in Timestamps : set_end(t) =>
             IF t > event[1].start
             THEN ret'[1] = "Ok"
             ELSE ret' = Err("InvalidEndTime")]_vars

\* C10: when a start/end setter fails, the caller still holds an Event with
\* the start, end, name and id it had before the call.
C10_FailureKeepsEvent ==
    [][(call'.op \in StartSetters \cup EndSetters /\ ret'[1] = "Err")
          => event' = event]_vars

\* C11: a successful start setter changes only start, a successful end
\* setter only end, set_name only name; so the id never changes over any
\* sequence of setter calls.
C11_SettersChangeOneField ==
    [][(event # None /\ event' # None /\ call'.op # "new") =>
          /\ call'.op \in StartSetters =>
                event'[1] = [event[1] EXCEPT !.start = event'[1].start]
          /\ call'.op \in EndSetters =>
                event'[1] = [event[1] EXCEPT !.end = event'[1].end]
          /\ call'.op = "set_name" =>
                event'[1] = [event[1] EXCEPT !.name = event'[1].name]
          /\ event'[1].id = event[1].id]_vars

\* an Event whose end was moved to another date by a successful end setter
C11_Witness ==
    /\ call.op \in EndSetters
    /\ event # None
    /\ date(event[1].end) # date(event[1].start)

\* what a start setter does with the timestamp ts: accepted when the end is
\* at least a whole second later, and then only start is replaced
StartOutcome(ts) ==
    /\ ret' = IF event[1].end - ts >= TicksPerSec
              THEN Ok(Event(ts, event[1].end, event[1].name, event[1].id))
              ELSE Err("InvalidStartTime")
    /\ event' = IF ret'[1] = "Ok" THEN Some(ret'[2]) ELSE None

\* what an end setter does with the timestamp ts
EndOutcome(ts) ==
    /\ ret' = IF ts - event[1].start >= TicksPerSec
              THEN Ok(Event(event[1].start, ts, event[1].name, event[1].id))
              ELSE Err("InvalidEndTime")
    /\ event' = IF ret'[1] = "Ok" THEN Some(ret'[2]) ELSE None

\* C15: set_start_time(t) behaves as set_start on (date of the current
\* start, t) and set_start_date(d) as set_start on (d, time of the current
\* start); set_end_time and set_end_date combine with the date or time of the
\* current end and behave as set_end, with the same acceptance condition and
\* the same error kind.
C15_PartSettersAsFullSetters ==
    [][LET x == call'.arg IN
       /\ (call'.op = "set_start" /\ set_start(x)) => StartOutcome(x)
       /\ (call'.op = "set_end" /\ set_end(x)) => EndOutcome(x)
       /\ (call'.op = "set_start_time" /\ set_start_time(x)) =>
             StartOutcome(date(event[1].start) * TicksPerDay + x)
       /\ (call'.op = "set_start_date" /\ set_start_date(x)) =>
             StartOutcome(x * TicksPerDay + (event[1].start % TicksPerDay))
       /\ (call'.op = "set_end_time" /\ set_end_time(x)) =>
             EndOutcome(date(event[1].end) * TicksPerDay + x)
       /\ (call'.op = "set_end_date" /\ set_end_date(x)) =>
             EndOutcome(x * TicksPerDay + (event[1].end % TicksPerDay))]_vars

\* a successful set_end_time on an Event that ends on a later date than it
\* starts
C15_Witness ==
    /\ call.op = "set_end_time"
    /\ event # None
    /\ date(event[1].end) # date(event[1].start)
    /\ time(event[1].end) = call.arg

---------------------------------------------------------------------------
(* Properties of the Event order. *)

\* the fields of an Event in the order (start, end, name, id)
Key(e) == <<e.start, e.end, e.name, e.id>>

===========================================================================
